---- MODULE Spec2Model ----
(***************************************************************************)
(* Model of wardenly-rs/tools/data_migrate/migrate.py: the two storage     *)
(* backends (SqliteBackend, MongoBackend), the migrate() pipeline and the  *)
(* main() driver with its try/finally cleanup.                             *)
(*                                                                         *)
(* Python values are wrapped so that None can be compared with any value:  *)
(* None is <<>> and a value v is <<v>>.  An Account/Group id is a plain    *)
(* string.  A Python list is a sequence; a JSON text is a sequence of      *)
(* tokens ("[", ",", "]" and atoms).  A cookie mapping is an atom.         *)
(*                                                                         *)
(* Truthiness: `if not self.conn`, `if self.client`, `if not self.db` are  *)
(* modelled as tests against None (default object truthiness).             *)
(***************************************************************************)
EXTENDS Integers, Sequences, FiniteSets, TLC

\* ------------------------------------------------------------------ bounds
MaxBatch == 2

\* ------------------------------------------------------------ Python values
None == <<>>
Val(x) == <<x>>

\* a decoded JSON value that is not null and not a list (a number, a string,
\* an object), named by its token; a list is Val(<<items>>)
NonList(tok) == <<"json", tok>>
IsList(v) == Len(v) = 1

\* bool() of a list or a str held in an optional slot: None, [] and "" are falsy
Truthy(v) == v # None /\ Len(v[1]) > 0

\* bool() of an object handle (Connection, MongoClient, Database) or None
Connected(h) == h # None

Backends == {"source", "target"}
Kinds == {"sqlite", "mongodb"}

\* ids in ascending order (ORDER BY id / sort("_id", 1))
AccountIds == <<"a1", "a2">>
GroupIds == <<"g1", "g2">>

Range(s) == {s[i] : i \in 1..Len(s)}

\* ------------------------------------------------------------- data models
Account(id, role_name, user_name, password, server_id, ranking, cookies) ==
    [id |-> id, role_name |-> role_name, user_name |-> user_name,
     password |-> password, server_id |-> server_id, ranking |-> ranking,
     cookies |-> cookies]

Group(id, name, description, account_ids, ranking) ==
    [id |-> id, name |-> name, description |-> description,
     account_ids |-> account_ids, ranking |-> ranking]

\* the cookie values an account may carry: absent, empty, one cookie
CookieValues == {None, Val(<<>>), Val(<<"sid=x">>)}

\* accounts handed to write_accounts: a1 with each cookie value, a2 with a
\* cookie, and an a2 whose role_name is None (a document's explicit null)
AccountValues ==
    {Account("a1", Val("admin"), Val("u"), Val("p"), Val(1), Val(0), ck) :
        ck \in CookieValues}
    \cup {Account("a2", Val("user"), Val("u"), Val("p"), Val(2), Val(1), Val(<<"sid=x">>)),
          Account("a2", None, Val("u"), Val("p"), Val(2), Val(0), None)}

GroupValues ==
    {Group("g1", Val("G"), None, Val(<<"a1">>), Val(0)),
     Group("g1", Val("G"), Val("d"), Val(<<"a2", "a1">>), Val(1)),
     Group("g2", None, None, Val(<<>>), Val(0))}

SeqsUpTo(S, n) == UNION {[1..k -> S] : k \in 0..n}

DistinctIds(recs) == \A i, j \in 1..Len(recs) : recs[i].id = recs[j].id => i = j

\* the lists handed to write_accounts / write_groups: up to MaxBatch records
\* with distinct ids, in any order
AccountBatches == {s \in SeqsUpTo(AccountValues, MaxBatch) : DistinctIds(s)}
GroupBatches == {s \in SeqsUpTo(GroupValues, MaxBatch) : DistinctIds(s)}

\* ------------------------------------------------------------------- JSON
RECURSIVE JoinComma(_)
JoinComma(xs) ==
    IF Len(xs) = 0 THEN <<>>
    ELSE IF Len(xs) = 1 THEN <<xs[1]>>
    ELSE <<xs[1], ",">> \o JoinComma(Tail(xs))

\* json.dumps of a Python value: None is "null", a list is "[" items "]"
json_dumps(v) ==
    IF v = None THEN <<"null">> ELSE <<"[">> \o JoinComma(v[1]) \o <<"]">>

JsonPunct == {"[", "]", ",", "null"}

\* the items between the brackets: atoms separated by single commas
RECURSIVE ParseItems(_)
ParseItems(ts) ==
    IF Len(ts) = 0 THEN [ok |-> FALSE, items |-> <<>>]
    ELSE IF ts[1] \in JsonPunct THEN [ok |-> FALSE, items |-> <<>>]
    ELSE IF Len(ts) = 1 THEN [ok |-> TRUE, items |-> <<ts[1]>>]
    ELSE IF ts[2] # "," THEN [ok |-> FALSE, items |-> <<>>]
    ELSE LET rest == ParseItems(SubSeq(ts, 3, Len(ts)))
         IN  [ok |-> rest.ok, items |-> <<ts[1]>> \o rest.items]

\* json.loads of a text: ok = FALSE stands for json.JSONDecodeError; a text
\* of one atom is a valid document that is not a list
json_loads(text) ==
    IF text = <<"null">> THEN [ok |-> TRUE, value |-> None]
    ELSE IF Len(text) = 1 /\ text[1] \notin JsonPunct
         THEN [ok |-> TRUE, value |-> NonList(text[1])]
    ELSE IF Len(text) < 2 \/ text[1] # "[" \/ text[Len(text)] # "]"
         THEN [ok |-> FALSE, value |-> None]
    ELSE IF Len(text) = 2 THEN [ok |-> TRUE, value |-> Val(<<>>)]
    ELSE LET p == ParseItems(SubSeq(text, 2, Len(text) - 1))
         IN  [ok |-> p.ok, value |-> IF p.ok THEN Val(p.items) ELSE None]

\* ------------------------------------------------------------------ stores
\* a table / collection is a function from the ids present to a row / document
EmptyTable == [x \in {} |-> None]

Upsert(table, id, rec) ==
    [x \in (DOMAIN table) \cup {id} |-> IF x = id THEN rec ELSE table[x]]

\* the store behind a backend: SQLite file (tables created or not) or
\* MongoDB database (collections exist implicitly)
EmptyStore(k) ==
    [tables |-> (k = "mongodb"), accounts |-> EmptyTable, groups |-> EmptyTable]

\* smallest index whose record fails to be written, 0 when none does
FirstFail(n, Bad(_), ioFailAt) ==
    LET F == {i \in 1..n : Bad(i) \/ i = ioFailAt}
    IN  IF F = {} THEN 0 ELSE CHOOSE i \in F : \A j \in F : i <= j

\* the for-loop of a write: upsert records 1..m in order
RECURSIVE UpsertAll(_, _, _)
UpsertAll(table, recs, m) ==
    IF m = 0 THEN table
    ELSE LET t == UpsertAll(table, recs, m - 1)
         IN  Upsert(t, recs[m].id, recs[m].rec)

\* a read that returns the records in descending id order
Sorted_Descending(ids, table) ==
    LET asc == SelectSeq(ids, LAMBDA i : i \in DOMAIN table)
    IN  [i \in 1..Len(asc) |-> asc[Len(asc) + 1 - i]]

\* records in ascending id order
Sorted(ids, table) == SelectSeq(ids, LAMBDA i : i \in DOMAIN table)

Map(s, F(_)) == [i \in 1..Len(s) |-> F(s[i])]

\* ---------------------------------------------------- SQLite representation
\* cookies_json = json.dumps(acc.cookies) if acc.cookies else None
cookies_json(acc) ==
    IF Truthy(acc.cookies) THEN Val(json_dumps(acc.cookies)) ELSE None

\* the parameter tuple of INSERT OR REPLACE INTO accounts
SqliteAccountRow(acc) ==
    [id |-> acc.id, role_name |-> acc.role_name, user_name |-> acc.user_name,
     password |-> acc.password, server_id |-> acc.server_id,
     ranking |-> acc.ranking, cookies |-> cookies_json(acc)]

\* the parameter tuple of INSERT OR REPLACE INTO groups
SqliteGroupRow(grp) ==
    [id |-> grp.id, name |-> grp.name, description |-> grp.description,
     account_ids |-> Val(json_dumps(grp.account_ids)), ranking |-> grp.ranking]

\* NOT NULL constraints of CREATE TABLE accounts / groups
AccountRowRejected(row) ==
    \/ row.role_name = None \/ row.user_name = None
    \/ row.password = None \/ row.server_id = None

GroupRowRejected(row) == row.name = None \/ row.account_ids = None

\* the body of the for-loop of SqliteBackend.read_accounts
SqliteAccountOfRow(row) ==
    LET decoded == IF Truthy(row.cookies) THEN json_loads(row.cookies[1])
                   ELSE [ok |-> FALSE, value |-> None]
        cookies == IF decoded.ok THEN decoded.value ELSE None
    IN  Account(row.id, row.role_name, row.user_name, row.password,
                row.server_id, row.ranking, cookies)

\* the body of the for-loop of SqliteBackend.read_groups
SqliteGroupOfRow(row) ==
    LET decoded == IF Truthy(row.account_ids) THEN json_loads(row.account_ids[1])
                   ELSE [ok |-> FALSE, value |-> None]
        account_ids == IF decoded.ok THEN decoded.value ELSE Val(<<>>)
    IN  Group(row.id, row.name, row.description, account_ids, row.ranking)

\* SELECT ... FROM accounts ORDER BY id, decoded row by row
SqliteReadAccounts(db) ==
    Map(Sorted(AccountIds, db.accounts), LAMBDA i : SqliteAccountOfRow(db.accounts[i]))

SqliteReadGroups(db) ==
    Map(Sorted(GroupIds, db.groups), LAMBDA i : SqliteGroupOfRow(db.groups[i]))

\* --------------------------------------------------- MongoDB representation
doc_get(doc, key, default) == IF key \in DOMAIN doc THEN doc[key] ELSE default

\* the document built in MongoBackend.write_accounts
MongoAccountDoc(acc) ==
    LET doc == [_id |-> acc.id, role_name |-> acc.role_name,
                user_name |-> acc.user_name, password |-> acc.password,
                server_id |-> acc.server_id, ranking |-> acc.ranking]
    IN  IF acc.cookies # None THEN doc @@ ("cookies" :> acc.cookies) ELSE doc

\* the document built in MongoBackend.write_groups
MongoGroupDoc(grp) ==
    [_id |-> grp.id, name |-> grp.name, description |-> grp.description,
     account_ids |-> grp.account_ids, ranking |-> grp.ranking]

\* the body of the for-loop of MongoBackend.read_accounts
MongoAccountOfDoc(doc) ==
    Account(doc["_id"], doc_get(doc, "role_name", Val("")),
            doc_get(doc, "user_name", Val("")), doc_get(doc, "password", Val("")),
            doc_get(doc, "server_id", Val(0)), doc_get(doc, "ranking", Val(0)),
            doc_get(doc, "cookies", None))

\* the body of the for-loop of MongoBackend.read_groups
MongoGroupOfDoc(doc) ==
    Group(doc["_id"], doc_get(doc, "name", Val("")),
          doc_get(doc, "description", None),
          doc_get(doc, "account_ids", Val(<<>>)), doc_get(doc, "ranking", Val(0)))

\* find().sort("_id", 1), decoded document by document
MongoReadAccounts(db) ==
    Map(Sorted(AccountIds, db.accounts), LAMBDA i : MongoAccountOfDoc(db.accounts[i]))

MongoReadGroups(db) ==
    Map(Sorted(GroupIds, db.groups), LAMBDA i : MongoGroupOfDoc(db.groups[i]))

\* what read_accounts / read_groups return for a store of kind k holding db
ReadAccountsOf(k, db) ==
    IF k = "sqlite" THEN SqliteReadAccounts(db) ELSE MongoReadAccounts(db)

ReadGroupsOf(k, db) ==
    IF k = "sqlite" THEN SqliteReadGroups(db) ELSE MongoReadGroups(db)

\* ------------------------------------------------------------------- state
VARIABLES
    kind,          \* kind[b]: storage type of backend b
    self,          \* self[b]: the attributes conn / client / db of the backend object
    status,        \* status[b]: "new", "failed" (last connect raised), "connected", "closed"
    store,         \* store[b]: the durable (committed) content of the store behind b
    txn,           \* txn[b]: the content as seen through b's connection (uncommitted included)
    ret,           \* outcome of the last backend call
    pc,            \* position of main() / migrate()
    dry_run,       \* args.dry_run
    skip_cookies,  \* args.skip_cookies
    accounts,      \* migrate(): local accounts
    groups,        \* migrate(): local groups
    calls,         \* backend calls made by main() / migrate(), in order
    outcome,       \* how main() ends: "running", "ok", "aborted", "error"
    failure,       \* the backend call that raised inside main()'s try block
    hop,           \* number of the run in a two-hop migration
    orig,          \* what the first run read from its source
    store0,        \* the content of the stores when the run started
    args,          \* args[b]: the command-line arguments naming backend b
    made,          \* made[b]: what create_backend() gave for b
    confirm        \* the answer read by input(), None before the prompt

runVars == <<kind, pc, dry_run, skip_cookies, accounts, groups, calls, outcome, failure,
            hop, orig, store0, args, made, confirm>>
vars == <<kind, self, status, store, txn, ret, pc, dry_run, skip_cookies,
          accounts, groups, calls, outcome, failure, hop, orig, store0, args, made, confirm>>

\* accounts / groups: the list returned by a read or passed to a write;
\* attempted: how many records of the list a write tried to store
Ret(op, b, res, accs, grps, attempted) ==
    [op |-> op, b |-> b, res |-> res, accounts |-> accs, groups |-> grps,
     attempted |-> attempted]

NoRet == Ret("none", "source", "ok", <<>>, <<>>, 0)

\* raise RuntimeError("Not connected"): nothing else happens
RaiseNotConnected(op, b, accs, grps) ==
    /\ ret' = Ret(op, b, "NotConnected", accs, grps, 0)
    /\ UNCHANGED <<self, status, store, txn>>

\* ----------------------------------------------------------- SqliteBackend
\* ok = FALSE: mkdir or sqlite3.connect raises before self.conn is assigned
SqliteBackend_connect(b, ok) ==
    /\ self' = IF ok THEN [self EXCEPT ![b].conn = Val("Connection")] ELSE self
    /\ status' = [status EXCEPT ![b] =
                    IF ok THEN "connected"
                    ELSE IF Connected(self[b].conn) THEN @ ELSE "failed"]
    /\ txn' = IF ok THEN [txn EXCEPT ![b] = store[b]] ELSE txn
    /\ store' = store
    /\ ret' = Ret("connect", b, IF ok THEN "ok" ELSE "Error", <<>>, <<>>, 0)

\* close() that closes the connection but keeps the attribute
SqliteBackend_close_KeepsConn(b) ==
    /\ IF Connected(self[b].conn)
       THEN /\ txn' = [txn EXCEPT ![b] = store[b]]
            /\ status' = [status EXCEPT ![b] = "closed"]
       ELSE UNCHANGED <<txn, status>>
    /\ self' = self
    /\ store' = store
    /\ ret' = Ret("close", b, "ok", <<>>, <<>>, 0)

\* closing a connection discards its uncommitted changes
SqliteBackend_close(b) ==
    /\ IF Connected(self[b].conn)
       THEN /\ self' = [self EXCEPT ![b].conn = None]
            /\ txn' = [txn EXCEPT ![b] = store[b]]
            /\ status' = [status EXCEPT ![b] = "closed"]
       ELSE UNCHANGED <<self, txn, status>>
    /\ store' = store
    /\ ret' = Ret("close", b, "ok", <<>>, <<>>, 0)

\* CREATE TABLE IF NOT EXISTS (twice), then commit
SqliteBackend_ensure_schema(b, ioFail) ==
    IF ~Connected(self[b].conn) THEN RaiseNotConnected("ensure_schema", b, <<>>, <<>>)
    ELSE IF ioFail
    THEN /\ ret' = Ret("ensure_schema", b, "Error", <<>>, <<>>, 0)
         /\ UNCHANGED <<self, status, store, txn>>
    ELSE /\ txn' = [txn EXCEPT ![b].tables = TRUE]
         /\ store' = [store EXCEPT ![b] = txn'[b]]
         /\ ret' = Ret("ensure_schema", b, "ok", <<>>, <<>>, 0)
         /\ UNCHANGED <<self, status>>

\* the SELECT raises when the table does not exist or on an I/O error
SqliteBackend_read_accounts(b, ioFail) ==
    IF ~Connected(self[b].conn) THEN RaiseNotConnected("read_accounts", b, <<>>, <<>>)
    ELSE /\ ret' = IF ioFail \/ ~txn[b].tables
                   THEN Ret("read_accounts", b, "Error", <<>>, <<>>, 0)
                   ELSE Ret("read_accounts", b, "ok", SqliteReadAccounts(txn[b]), <<>>, 0)
         /\ UNCHANGED <<self, status, store, txn>>

SqliteBackend_read_groups(b, ioFail) ==
    IF ~Connected(self[b].conn) THEN RaiseNotConnected("read_groups", b, <<>>, <<>>)
    ELSE /\ ret' = IF ioFail \/ ~txn[b].tables
                   THEN Ret("read_groups", b, "Error", <<>>, <<>>, 0)
                   ELSE Ret("read_groups", b, "ok", <<>>, SqliteReadGroups(txn[b]), 0)
         /\ UNCHANGED <<self, status, store, txn>>

\* a write_accounts that commits after every record
SqliteBackend_write_accounts_CommitsEach(b, accs, ioFailAt) ==
    IF ~Connected(self[b].conn) THEN RaiseNotConnected("write_accounts", b, accs, <<>>)
    ELSE LET n == Len(accs)
             recs == [i \in 1..n |-> [id |-> accs[i].id, rec |-> SqliteAccountRow(accs[i])]]
             k == FirstFail(n, LAMBDA i : ~txn[b].tables \/ AccountRowRejected(recs[i].rec),
                            ioFailAt)
             m == IF k = 0 THEN n ELSE k - 1
         IN  /\ txn' = [txn EXCEPT ![b].accounts = UpsertAll(@, recs, m)]
             /\ store' = [store EXCEPT ![b] = txn'[b]]
             /\ ret' = Ret("write_accounts", b, IF k = 0 THEN "ok" ELSE "Error",
                           accs, <<>>, IF k = 0 THEN n ELSE k)
             /\ UNCHANGED <<self, status>>

\* INSERT OR REPLACE per record inside one transaction; an execute that raises
\* (missing table, NOT NULL violation, I/O error) leaves the loop before the
\* commit; commit only after the last record
SqliteBackend_write_accounts(b, accs, ioFailAt) ==
    IF ~Connected(self[b].conn) THEN RaiseNotConnected("write_accounts", b, accs, <<>>)
    ELSE LET n == Len(accs)
             recs == [i \in 1..n |-> [id |-> accs[i].id, rec |-> SqliteAccountRow(accs[i])]]
             k == FirstFail(n, LAMBDA i : ~txn[b].tables \/ AccountRowRejected(recs[i].rec),
                            ioFailAt)
             m == IF k = 0 THEN n ELSE k - 1
         IN  /\ txn' = [txn EXCEPT ![b].accounts = UpsertAll(@, recs, m)]
             /\ store' = IF k = 0 THEN [store EXCEPT ![b] = txn'[b]] ELSE store
             /\ ret' = Ret("write_accounts", b, IF k = 0 THEN "ok" ELSE "Error",
                           accs, <<>>, IF k = 0 THEN n ELSE k)
             /\ UNCHANGED <<self, status>>

SqliteBackend_write_groups(b, grps, ioFailAt) ==
    IF ~Connected(self[b].conn) THEN RaiseNotConnected("write_groups", b, <<>>, grps)
    ELSE LET n == Len(grps)
             recs == [i \in 1..n |-> [id |-> grps[i].id, rec |-> SqliteGroupRow(grps[i])]]
             k == FirstFail(n, LAMBDA i : ~txn[b].tables \/ GroupRowRejected(recs[i].rec),
                            ioFailAt)
             m == IF k = 0 THEN n ELSE k - 1
         IN  /\ txn' = [txn EXCEPT ![b].groups = UpsertAll(@, recs, m)]
             /\ store' = IF k = 0 THEN [store EXCEPT ![b] = txn'[b]] ELSE store
             /\ ret' = Ret("write_groups", b, IF k = 0 THEN "ok" ELSE "Error",
                           <<>>, grps, IF k = 0 THEN n ELSE k)
             /\ UNCHANGED <<self, status>>

\* ------------------------------------------------------------ MongoBackend
\* client and db are assigned before the ping; ok = FALSE: the ping raises
MongoBackend_connect(b, ok) ==
    /\ self' = [self EXCEPT ![b].client = Val("MongoClient"), ![b].db = Val("Database")]
    /\ status' = [status EXCEPT ![b] = IF ok THEN "connected" ELSE "failed"]
    /\ ret' = Ret("connect", b, IF ok THEN "ok" ELSE "Error", <<>>, <<>>, 0)
    /\ UNCHANGED <<store, txn>>

\* close() that drops the db handle but keeps the client
MongoBackend_close_KeepsClient(b) ==
    /\ IF Connected(self[b].client)
       THEN /\ self' = [self EXCEPT ![b].db = None]
            /\ status' = [status EXCEPT ![b] = "closed"]
       ELSE UNCHANGED <<self, status>>
    /\ ret' = Ret("close", b, "ok", <<>>, <<>>, 0)
    /\ UNCHANGED <<store, txn>>

MongoBackend_close(b) ==
    /\ IF Connected(self[b].client)
       THEN /\ self' = [self EXCEPT ![b].client = None, ![b].db = None]
            /\ status' = [status EXCEPT ![b] = "closed"]
       ELSE UNCHANGED <<self, status>>
    /\ ret' = Ret("close", b, "ok", <<>>, <<>>, 0)
    /\ UNCHANGED <<store, txn>>

\* pass
MongoBackend_ensure_schema(b) ==
    /\ ret' = Ret("ensure_schema", b, "ok", <<>>, <<>>, 0)
    /\ UNCHANGED <<self, status, store, txn>>

\* a db handle whose server is not reachable makes find() raise
MongoBackend_read_accounts(b, ioFail) ==
    IF ~Connected(self[b].db) THEN RaiseNotConnected("read_accounts", b, <<>>, <<>>)
    ELSE /\ ret' = IF ioFail \/ status[b] # "connected"
                   THEN Ret("read_accounts", b, "Error", <<>>, <<>>, 0)
                   ELSE Ret("read_accounts", b, "ok", MongoReadAccounts(store[b]), <<>>, 0)
         /\ UNCHANGED <<self, status, store, txn>>

MongoBackend_read_groups(b, ioFail) ==
    IF ~Connected(self[b].db) THEN RaiseNotConnected("read_groups", b, <<>>, <<>>)
    ELSE /\ ret' = IF ioFail \/ status[b] # "connected"
                   THEN Ret("read_groups", b, "Error", <<>>, <<>>, 0)
                   ELSE Ret("read_groups", b, "ok", <<>>, MongoReadGroups(store[b]), 0)
         /\ UNCHANGED <<self, status, store, txn>>

\* replace_one(..., upsert=True) per record, each durable at once; a
\* replace_one that raises leaves the loop
MongoBackend_write_accounts(b, accs, ioFailAt) ==
    IF ~Connected(self[b].db) THEN RaiseNotConnected("write_accounts", b, accs, <<>>)
    ELSE LET n == Len(accs)
             recs == [i \in 1..n |-> [id |-> accs[i].id, rec |-> MongoAccountDoc(accs[i])]]
             k == FirstFail(n, LAMBDA i : status[b] # "connected", ioFailAt)
             m == IF k = 0 THEN n ELSE k - 1
         IN  /\ store' = [store EXCEPT ![b].accounts = UpsertAll(@, recs, m)]
             /\ txn' = [txn EXCEPT ![b] = store'[b]]
             /\ ret' = Ret("write_accounts", b, IF k = 0 THEN "ok" ELSE "Error",
                           accs, <<>>, IF k = 0 THEN n ELSE k)
             /\ UNCHANGED <<self, status>>

MongoBackend_write_groups(b, grps, ioFailAt) ==
    IF ~Connected(self[b].db) THEN RaiseNotConnected("write_groups", b, <<>>, grps)
    ELSE LET n == Len(grps)
             recs == [i \in 1..n |-> [id |-> grps[i].id, rec |-> MongoGroupDoc(grps[i])]]
             k == FirstFail(n, LAMBDA i : status[b] # "connected", ioFailAt)
             m == IF k = 0 THEN n ELSE k - 1
         IN  /\ store' = [store EXCEPT ![b].groups = UpsertAll(@, recs, m)]
             /\ txn' = [txn EXCEPT ![b] = store'[b]]
             /\ ret' = Ret("write_groups", b, IF k = 0 THEN "ok" ELSE "Error",
                           <<>>, grps, IF k = 0 THEN n ELSE k)
             /\ UNCHANGED <<self, status>>

\* ------------------------------------------- StorageBackend (dynamic dispatch)
connect(b, ok) ==
    IF kind[b] = "sqlite" THEN SqliteBackend_connect(b, ok) ELSE MongoBackend_connect(b, ok)

close(b) ==
    IF kind[b] = "sqlite" THEN SqliteBackend_close(b) ELSE MongoBackend_close(b)

ensure_schema(b, ioFail) ==
    IF kind[b] = "sqlite" THEN SqliteBackend_ensure_schema(b, ioFail)
    ELSE MongoBackend_ensure_schema(b)

read_accounts(b, ioFail) ==
    IF kind[b] = "sqlite" THEN SqliteBackend_read_accounts(b, ioFail)
    ELSE MongoBackend_read_accounts(b, ioFail)

read_groups(b, ioFail) ==
    IF kind[b] = "sqlite" THEN SqliteBackend_read_groups(b, ioFail)
    ELSE MongoBackend_read_groups(b, ioFail)

write_accounts(b, accs, ioFailAt) ==
    IF kind[b] = "sqlite" THEN SqliteBackend_write_accounts(b, accs, ioFailAt)
    ELSE MongoBackend_write_accounts(b, accs, ioFailAt)

write_groups(b, grps, ioFailAt) ==
    IF kind[b] = "sqlite" THEN SqliteBackend_write_groups(b, grps, ioFailAt)
    ELSE MongoBackend_write_groups(b, grps, ioFailAt)

NewBackend == [conn |-> None, client |-> None, db |-> None]

\* ------------------------------------------------------- create_backend()
\* A str is the sequence of its characters; `not s` holds for None and "".
StorageTypes == {"sqlite", "mongodb", "redis"}
StrValues == {None, Val(<<>>), Val(<<"w", "d">>)}

Args(type, path, uri, database) ==
    [type |-> type, path |-> path, uri |-> uri, database |-> database]

\* a create_backend() that does not look at the database name
create_backend_NoDatabaseTest(storage_type, path, uri, database) ==
    IF storage_type = "sqlite"
    THEN IF ~Truthy(path) THEN "ValueError" ELSE "SqliteBackend"
    ELSE IF storage_type = "mongodb"
    THEN IF ~Truthy(uri) THEN "ValueError" ELSE "MongoBackend"
    ELSE "ValueError"

\* the class of the backend constructed, or "ValueError" when it raises; the
\* constructors only store their arguments
create_backend(storage_type, path, uri, database) ==
    IF storage_type = "sqlite"
    THEN IF ~Truthy(path) THEN "ValueError" ELSE "SqliteBackend"
    ELSE IF storage_type = "mongodb"
    THEN IF ~Truthy(uri) \/ ~Truthy(database) THEN "ValueError" ELSE "MongoBackend"
    ELSE "ValueError"

\* a complete command line for a backend of kind k
ArgsFor(k) ==
    IF k = "sqlite" THEN Args("sqlite", Val(<<"w", "d">>), None, None)
    ELSE Args("mongodb", None, Val(<<"w", "d">>), Val(<<"w", "d">>))

\* ---------------------------------------- a client of one backend (the API)
\* The backend under test is "target"; it starts freshly constructed over an
\* empty store.  Each action is one call of a StorageBackend method.
Sut == "target"

InitApi ==
    /\ kind \in {f \in [Backends -> Kinds] : f["source"] = "sqlite"}
    /\ self = [b \in Backends |-> NewBackend]
    /\ status = [b \in Backends |-> "new"]
    /\ store = [b \in Backends |-> EmptyStore(kind[b])]
    /\ txn = store
    /\ ret = NoRet
    /\ pc = "api"
    /\ dry_run = FALSE
    /\ skip_cookies = FALSE
    /\ accounts = <<>>
    /\ groups = <<>>
    /\ calls = <<>>
    /\ outcome = "running"
    /\ failure = NoRet
    /\ hop = 0
    /\ orig = [accounts |-> <<>>, groups |-> <<>>]
    /\ store0 = store
    /\ args = [b \in Backends |-> ArgsFor(kind[b])]
    /\ made = [b \in Backends |-> create_backend(args[b].type, args[b].path,
                                                 args[b].uri, args[b].database)]
    /\ confirm = None

ApiConnect ==
    /\ status[Sut] # "connected"
    /\ \E ok \in BOOLEAN : connect(Sut, ok)
    /\ UNCHANGED runVars

ApiClose ==
    /\ close(Sut)
    /\ UNCHANGED runVars

ApiEnsureSchema ==
    /\ \E ioFail \in BOOLEAN : ensure_schema(Sut, ioFail)
    /\ UNCHANGED runVars

ApiReadAccounts ==
    /\ \E ioFail \in BOOLEAN : read_accounts(Sut, ioFail)
    /\ UNCHANGED runVars

ApiReadGroups ==
    /\ \E ioFail \in BOOLEAN : read_groups(Sut, ioFail)
    /\ UNCHANGED runVars

ApiWriteAccounts ==
    \E accs \in AccountBatches : \E ioFailAt \in 0..Len(accs) :
        /\ write_accounts(Sut, accs, ioFailAt)
        /\ UNCHANGED runVars

ApiWriteGroups ==
    \E grps \in GroupBatches : \E ioFailAt \in 0..Len(grps) :
        /\ write_groups(Sut, grps, ioFailAt)
        /\ UNCHANGED runVars

NextApi ==
    \/ ApiConnect
    \/ ApiClose
    \/ ApiEnsureSchema
    \/ ApiReadAccounts
    \/ ApiReadGroups
    \/ ApiWriteAccounts
    \/ ApiWriteGroups

SpecApi == InitApi /\ [][NextApi]_vars

\* --------------------------------------------------------- stores of a run
\* all tables over ids whose record for an id is one of recs
Tables(ids, recs) ==
    UNION {[D -> recs] : D \in SUBSET Range(ids)}

TablesById(ids, recs) ==
    {t \in Tables(ids, recs) : \A i \in DOMAIN t : t[i].id = i}

\* rows an accounts table can hold: those write_accounts stores, and the row
\* of an account with no cookies as the application encodes it ("[]")
SqliteStoredAccounts ==
    LET ok == {SqliteAccountRow(a) : a \in AccountValues}
    IN  {r \in ok : ~AccountRowRejected(r)}
        \cup {[r EXCEPT !.cookies = Val(json_dumps(Val(<<>>)))] :
                 r \in {x \in ok : x.id = "a1" /\ x.cookies = None}}

SqliteStoredGroups ==
    {r \in {SqliteGroupRow(g) : g \in GroupValues} : ~GroupRowRejected(r)}

\* documents a collection can hold: those write_accounts / write_groups store
MongoStoredAccounts == {[id |-> a.id, doc |-> MongoAccountDoc(a)] : a \in AccountValues}
MongoStoredGroups == {[id |-> g.id, doc |-> MongoGroupDoc(g)] : g \in GroupValues}

Docs(t) == [i \in DOMAIN t |-> t[i].doc]

\* the stores a run may start from as its source
SourceStores(k) ==
    IF k = "sqlite"
    THEN {EmptyStore(k)} \cup
         {[tables |-> TRUE, accounts |-> a, groups |-> g] :
            a \in TablesById(AccountIds, SqliteStoredAccounts),
            g \in TablesById(GroupIds, SqliteStoredGroups)}
    ELSE {[tables |-> TRUE, accounts |-> Docs(a), groups |-> Docs(g)] :
            a \in TablesById(AccountIds, MongoStoredAccounts),
            g \in TablesById(GroupIds, MongoStoredGroups)}

\* a1 with a cookie and a group naming it
PriorAccount == Account("a1", Val("admin"), Val("u"), Val("p"), Val(1), Val(0), Val(<<"sid=x">>))
PriorGroup == Group("g1", Val("G"), Val("d"), Val(<<"a2", "a1">>), Val(1))

\* the stores a run may start from as its target: empty, or holding a1 and g1
TargetStores(k) ==
    {EmptyStore(k),
     [tables |-> TRUE,
      accounts |-> ("a1" :> IF k = "sqlite" THEN SqliteAccountRow(PriorAccount)
                                            ELSE MongoAccountDoc(PriorAccount)),
      groups |-> ("g1" :> IF k = "sqlite" THEN SqliteGroupRow(PriorGroup)
                                          ELSE MongoGroupDoc(PriorGroup))]}

\* ------------------------------------------- reading whatever a store holds
\* The backend under test reads a store filled by any writer (the application,
\* another tool): columns and fields may hold any text or value the schema
\* admits.
CookieTexts ==
    {None, Val(<<>>), Val(<<"[", "]">>), Val(<<"[", "sid=x", "]">>),
     Val(<<"[", "sid=x">>), Val(<<"sid=x">>), Val(<<"null">>), Val(<<"[", "5", "]">>)}

AccountIdsTexts ==
    {Val(<<>>), Val(<<"[", "]">>), Val(<<"[", "a2", ",", "a1", "]">>),
     Val(<<"[", "a1">>), Val(<<"a1">>), Val(<<"null">>), Val(<<"[", "5", "]">>)}

\* a second account and a second group, well formed
SecondAccount == Account("a2", Val("user"), Val("u"), Val("p"), Val(2), Val(1), None)
SecondGroup == Group("g2", Val("H"), None, Val(<<"a1">>), Val(1))

\* INTEGER DEFAULT 0 columns admit NULL
RankingValues == {None, Val(0), Val(1)}

SqliteReadableAccounts ==
    {[id |-> "a1", role_name |-> Val("admin"), user_name |-> Val("u"),
      password |-> Val("p"), server_id |-> Val(1), ranking |-> r, cookies |-> c] :
        r \in RankingValues, c \in CookieTexts}
    \cup {SqliteAccountRow(SecondAccount)}

SqliteReadableGroups ==
    {[id |-> "g1", name |-> Val("G"), description |-> None, account_ids |-> a,
      ranking |-> r] : a \in AccountIdsTexts, r \in RankingValues}
    \cup {SqliteGroupRow(SecondGroup)}

\* a field of a document: left out (NoField), null, or a value
NoField == <<"no", "field", "here">>
WithField(doc, key, f) == IF f = NoField THEN doc ELSE doc @@ (key :> f)

MongoReadableAccounts ==
    {[id |-> "a1",
      doc |-> WithField(WithField([_id |-> "a1", role_name |-> Val("admin"),
                                   user_name |-> Val("u"), password |-> Val("p"),
                                   server_id |-> Val(1)], "ranking", r), "cookies", c)] :
        r \in {NoField} \cup RankingValues,
        c \in {NoField, None, Val(<<>>), Val(<<"sid=x">>), NonList("sid=x"), Val(<<"5">>)}}
    \cup {[id |-> "a2", doc |-> MongoAccountDoc(SecondAccount)]}

MongoReadableGroups ==
    {[id |-> "g1",
      doc |-> WithField(WithField([_id |-> "g1", name |-> Val("G"), description |-> None],
                                  "ranking", r), "account_ids", a)] :
        r \in {NoField} \cup RankingValues,
        a \in {NoField, None, Val(<<>>), Val(<<"a2", "a1">>), NonList("a1"), Val(<<"5">>)}}
    \cup {[id |-> "g2", doc |-> MongoGroupDoc(SecondGroup)]}

ReadableStores(k) ==
    IF k = "sqlite"
    THEN {[tables |-> TRUE, accounts |-> a, groups |-> g] :
            a \in TablesById(AccountIds, SqliteReadableAccounts),
            g \in TablesById(GroupIds, SqliteReadableGroups)}
    ELSE {[tables |-> TRUE, accounts |-> Docs(a), groups |-> Docs(g)] :
            a \in TablesById(AccountIds, MongoReadableAccounts),
            g \in TablesById(GroupIds, MongoReadableGroups)}

InitRead ==
    /\ kind \in {f \in [Backends -> Kinds] : f["source"] = "sqlite"}
    /\ self = [b \in Backends |-> NewBackend]
    /\ status = [b \in Backends |-> "new"]
    /\ store \in {[source |-> EmptyStore("sqlite"), target |-> st] :
                    st \in ReadableStores(kind[Sut])}
    /\ txn = store
    /\ ret = NoRet
    /\ pc = "api"
    /\ dry_run = FALSE
    /\ skip_cookies = FALSE
    /\ accounts = <<>>
    /\ groups = <<>>
    /\ calls = <<>>
    /\ outcome = "running"
    /\ failure = NoRet
    /\ hop = 0
    /\ orig = [accounts |-> <<>>, groups |-> <<>>]
    /\ store0 = store
    /\ args = [b \in Backends |-> ArgsFor(kind[b])]
    /\ made = [b \in Backends |-> create_backend(args[b].type, args[b].path,
                                                 args[b].uri, args[b].database)]
    /\ confirm = None

NextRead ==
    \/ ApiConnect
    \/ ApiReadAccounts
    \/ ApiReadGroups
    \/ ApiClose

SpecRead == InitRead /\ [][NextRead]_vars

\* ------------------------------------------------------------------ main()
\* main() after create_backend() has built source and target
Init ==
    /\ kind \in [Backends -> Kinds]
    /\ self = [b \in Backends |-> NewBackend]
    /\ status = [b \in Backends |-> "new"]
    /\ store \in {f \in [Backends -> SourceStores("sqlite") \cup SourceStores("mongodb")
                                      \cup TargetStores("sqlite") \cup TargetStores("mongodb")] :
                    /\ f["source"] \in SourceStores(kind["source"])
                    /\ f["target"] \in TargetStores(kind["target"])}
    /\ txn = store
    /\ ret = NoRet
    /\ pc = "connect_source"
    /\ dry_run \in BOOLEAN
    /\ skip_cookies \in BOOLEAN
    /\ accounts = <<>>
    /\ groups = <<>>
    /\ calls = <<>>
    /\ outcome = "running"
    /\ failure = NoRet
    /\ hop = 1
    /\ orig = [accounts |-> <<>>, groups |-> <<>>]
    /\ store0 = store
    /\ args = [b \in Backends |-> ArgsFor(kind[b])]
    /\ made = [b \in Backends |-> create_backend(args[b].type, args[b].path,
                                                 args[b].uri, args[b].database)]
    /\ confirm = None

Call(b, op, res) == [b |-> b, op |-> op, res |-> res]

\* a try block that swallows the exception and goes on with the next step
TryCall_Swallows(b, op, next) ==
    /\ calls' = Append(calls, Call(b, op, ret'.res))
    /\ pc' = next
    /\ outcome' = outcome
    /\ failure' = IF ret'.res = "ok" THEN failure ELSE ret'

\* a backend call made inside the try block: on success control
\* moves to next, an exception moves it to the finally block
TryCall(b, op, next) ==
    /\ calls' = Append(calls, Call(b, op, ret'.res))
    /\ pc' = IF ret'.res = "ok" THEN next ELSE "finally_source"
    /\ outcome' = IF ret'.res = "ok" THEN outcome ELSE "error"
    /\ failure' = IF ret'.res = "ok" THEN failure ELSE ret'

\* a main() that goes on to the target when the source's connect raised
MainConnectSource_GoesOn ==
    /\ pc = "connect_source"
    /\ \E ok \in BOOLEAN : connect("source", ok)
    /\ calls' = Append(calls, Call("source", "connect", ret'.res))
    /\ pc' = "connect_target"
    /\ UNCHANGED <<outcome, failure>>
    /\ UNCHANGED <<kind, dry_run, skip_cookies, accounts, groups, hop, orig, store0, args, made, confirm>>

\* source.connect()
MainConnectSource ==
    /\ pc = "connect_source"
    /\ \E ok \in BOOLEAN : connect("source", ok)
    /\ TryCall("source", "connect", "connect_target")
    /\ UNCHANGED <<kind, dry_run, skip_cookies, accounts, groups, hop, orig, store0, args, made, confirm>>

\* target.connect()
MainConnectTarget ==
    /\ pc = "connect_target"
    /\ \E ok \in BOOLEAN : connect("target", ok)
    /\ TryCall("target", "connect",
               IF dry_run THEN "read_accounts" ELSE "confirm")
    /\ UNCHANGED <<kind, dry_run, skip_cookies, accounts, groups, hop, orig, store0, args, made, confirm>>

lower(answer) == IF answer = "Y" THEN "y" ELSE answer

\* what the user may type at the prompt
Answers == {"y", "Y", "n", "yes", ""}

\* a prompt whose answer is read and then ignored
MainConfirm_AnyAnswer ==
    /\ pc = "confirm"
    /\ \E answer \in Answers : confirm' = Val(answer)
    /\ pc' = "read_accounts" /\ outcome' = outcome
    /\ UNCHANGED <<kind, self, status, store, txn, ret, dry_run, skip_cookies,
                   accounts, groups, calls, failure, hop, orig, store0, args, made>>

\* if not args.dry_run: confirm = input(...); anything but y/Y returns
MainConfirm ==
    /\ pc = "confirm"
    /\ \E answer \in Answers :
          /\ confirm' = Val(answer)
          /\ IF lower(answer) # "y"
             THEN pc' = "finally_source" /\ outcome' = "aborted"
             ELSE pc' = "read_accounts" /\ outcome' = outcome
    /\ UNCHANGED <<kind, self, status, store, txn, ret, dry_run, skip_cookies,
                   accounts, groups, calls, failure, hop, orig, store0, args, made>>

\* accounts = source.read_accounts()
MigrateReadAccounts ==
    /\ pc = "read_accounts"
    /\ \E ioFail \in BOOLEAN : read_accounts("source", ioFail)
    /\ TryCall("source", "read_accounts", "read_groups")
    /\ accounts' = ret'.accounts
    /\ orig' = IF hop = 1 THEN [orig EXCEPT !.accounts = ret'.accounts] ELSE orig
    /\ UNCHANGED <<kind, dry_run, skip_cookies, groups, hop, store0, args, made, confirm>>

\* groups = source.read_groups()
MigrateReadGroups ==
    /\ pc = "read_groups"
    /\ \E ioFail \in BOOLEAN : read_groups("source", ioFail)
    /\ TryCall("source", "read_groups", "strip")
    /\ groups' = ret'.groups
    /\ orig' = IF hop = 1 THEN [orig EXCEPT !.groups = ret'.groups] ELSE orig
    /\ UNCHANGED <<kind, dry_run, skip_cookies, accounts, hop, store0, args, made, confirm>>

\* a strip loop that leaves the cookies in place
StripCookies_Keeps(accs) == accs

\* for acc in accounts: acc.cookies = None
StripCookies(accs) == [i \in 1..Len(accs) |-> [accs[i] EXCEPT !.cookies = None]]

\* if skip_cookies: strip the cookies of the in-memory accounts
MigrateStripCookies ==
    /\ pc = "strip"
    /\ accounts' = IF skip_cookies THEN StripCookies(accounts) ELSE accounts
    /\ pc' = "report"
    /\ UNCHANGED <<kind, self, status, store, txn, ret, dry_run, skip_cookies,
                   groups, calls, outcome, failure, hop, orig, store0, args, made, confirm>>

\* migrate() without the dry_run return
MigrateReport_IgnoresDryRun ==
    /\ pc = "report"
    /\ pc' = "ensure_schema" /\ outcome' = outcome
    /\ UNCHANGED <<kind, self, status, store, txn, ret, dry_run, skip_cookies,
                   accounts, groups, calls, failure, hop, orig, store0, args, made, confirm>>

\* migrate() that goes straight to write_accounts, without ensure_schema
MigrateReport_SkipsSchema ==
    /\ pc = "report"
    /\ IF dry_run
       THEN pc' = "finally_source" /\ outcome' = "ok"
       ELSE pc' = "write_accounts" /\ outcome' = outcome
    /\ UNCHANGED <<kind, self, status, store, txn, ret, dry_run, skip_cookies,
                   accounts, groups, calls, failure, hop, orig, store0, args, made, confirm>>

\* the per-record log lines, then: if dry_run: return (main() reports success)
MigrateReport ==
    /\ pc = "report"
    /\ IF dry_run
       THEN pc' = "finally_source" /\ outcome' = "ok"
       ELSE pc' = "ensure_schema" /\ outcome' = outcome
    /\ UNCHANGED <<kind, self, status, store, txn, ret, dry_run, skip_cookies,
                   accounts, groups, calls, failure, hop, orig, store0, args, made, confirm>>

\* target.ensure_schema()
MigrateEnsureSchema ==
    /\ pc = "ensure_schema"
    /\ \E ioFail \in BOOLEAN : ensure_schema("target", ioFail)
    /\ TryCall("target", "ensure_schema", "write_accounts")
    /\ UNCHANGED <<kind, dry_run, skip_cookies, accounts, groups, hop, orig, store0, args, made, confirm>>

\* a migrate() that writes the accounts back to the source
MigrateWriteAccounts_ToSource ==
    /\ pc = "write_accounts"
    /\ \E ioFailAt \in 0..Len(accounts) : write_accounts("source", accounts, ioFailAt)
    /\ TryCall("source", "write_accounts", "write_groups")
    /\ UNCHANGED <<kind, dry_run, skip_cookies, accounts, groups, hop, orig, store0, args, made, confirm>>

\* target.write_accounts(accounts)
MigrateWriteAccounts ==
    /\ pc = "write_accounts"
    /\ \E ioFailAt \in 0..Len(accounts) : write_accounts("target", accounts, ioFailAt)
    /\ TryCall("target", "write_accounts", "write_groups")
    /\ UNCHANGED <<kind, dry_run, skip_cookies, accounts, groups, hop, orig, store0, args, made, confirm>>

\* target.write_groups(groups); migrate() returns and main() reports success
MigrateWriteGroups ==
    /\ pc = "write_groups"
    /\ \E ioFailAt \in 0..Len(groups) : write_groups("target", groups, ioFailAt)
    /\ calls' = Append(calls, Call("target", "write_groups", ret'.res))
    /\ pc' = "finally_source"
    /\ outcome' = IF ret'.res = "ok" THEN "ok" ELSE "error"
    /\ failure' = IF ret'.res = "ok" THEN failure ELSE ret'
    /\ UNCHANGED <<kind, dry_run, skip_cookies, accounts, groups, hop, orig, store0, args, made, confirm>>

\* finally: source.close()
MainFinallyCloseSource ==
    /\ pc = "finally_source"
    /\ close("source")
    /\ calls' = Append(calls, Call("source", "close", ret'.res))
    /\ pc' = "finally_target"
    /\ UNCHANGED <<kind, dry_run, skip_cookies, accounts, groups, outcome, failure,
                   hop, orig, store0, args, made, confirm>>

\* finally: target.close()
MainFinallyCloseTarget ==
    /\ pc = "finally_target"
    /\ close("target")
    /\ calls' = Append(calls, Call("target", "close", ret'.res))
    /\ pc' = "exit"
    /\ UNCHANGED <<kind, dry_run, skip_cookies, accounts, groups, outcome, failure,
                   hop, orig, store0, args, made, confirm>>

Next ==
    \/ MainConnectSource
    \/ MainConnectTarget
    \/ MainConfirm
    \/ MigrateReadAccounts
    \/ MigrateReadGroups
    \/ MigrateStripCookies
    \/ MigrateReport
    \/ MigrateEnsureSchema
    \/ MigrateWriteAccounts
    \/ MigrateWriteGroups
    \/ MainFinallyCloseSource
    \/ MainFinallyCloseTarget

Spec == Init /\ [][Next]_vars

\* ------------------------------------------- main() from the command line
\* main() from parse_args() on: the two create_backend() calls, then the run.
\* Each store named on the command line holds a1 and g1.
PriorStore(k) == CHOOSE st \in TargetStores(k) : st # EmptyStore(k)

ArgsValues ==
    {Args(t, p, u, d) : t \in StorageTypes, p \in StrValues, u \in StrValues, d \in StrValues}

InitMain ==
    /\ args \in [Backends -> ArgsValues]
    /\ made = [b \in Backends |-> "none"]
    /\ confirm = None
    /\ kind = [b \in Backends |-> "sqlite"]
    /\ self = [b \in Backends |-> NewBackend]
    /\ status = [b \in Backends |-> "new"]
    /\ store = [b \in Backends |-> IF args[b].type \in Kinds THEN PriorStore(args[b].type)
                                    ELSE EmptyStore("sqlite")]
    /\ txn = store
    /\ ret = NoRet
    /\ pc = "create_source"
    /\ dry_run \in BOOLEAN
    /\ skip_cookies = FALSE
    /\ accounts = <<>>
    /\ groups = <<>>
    /\ calls = <<>>
    /\ outcome = "running"
    /\ failure = NoRet
    /\ hop = 1
    /\ orig = [accounts |-> <<>>, groups |-> <<>>]
    /\ store0 = store

\* b = create_backend(args.b_type, path=..., uri=..., database=...); a
\* ValueError leaves main() before its try block
MainCreate(b, next) ==
    LET r == create_backend(args[b].type, args[b].path, args[b].uri, args[b].database)
    IN  /\ made' = [made EXCEPT ![b] = r]
        /\ kind' = IF r = "ValueError" THEN kind
                   ELSE [kind EXCEPT ![b] = IF r = "SqliteBackend" THEN "sqlite"
                                            ELSE "mongodb"]
        /\ pc' = IF r = "ValueError" THEN "config_error" ELSE next
        /\ outcome' = IF r = "ValueError" THEN "error" ELSE outcome
        /\ UNCHANGED <<self, status, store, txn, ret, dry_run, skip_cookies, accounts,
                       groups, calls, failure, hop, orig, store0, args, confirm>>

MainCreateSource ==
    /\ pc = "create_source"
    /\ MainCreate("source", "create_target")

MainCreateTarget ==
    /\ pc = "create_target"
    /\ MainCreate("target", "connect_source")

NextMain ==
    \/ MainCreateSource
    \/ MainCreateTarget
    \/ Next

SpecMain == InitMain /\ [][NextMain]_vars

\* --------------------------------------------- a migration there and back
\* The tool is run a second time: the first run's target becomes the source
\* and a fresh empty store of the first source's kind becomes the target.
SecondRun ==
    /\ pc = "exit" /\ hop = 1 /\ outcome = "ok"
    /\ hop' = 2
    /\ kind' = [source |-> kind["target"], target |-> kind["source"]]
    /\ store' = [source |-> store["target"], target |-> EmptyStore(kind["source"])]
    /\ txn' = store'
    /\ store0' = store'
    /\ self' = [b \in Backends |-> NewBackend]
    /\ status' = [b \in Backends |-> "new"]
    /\ ret' = NoRet
    /\ pc' = "connect_source"
    /\ accounts' = <<>>
    /\ groups' = <<>>
    /\ calls' = <<>>
    /\ outcome' = "running"
    /\ failure' = NoRet
    /\ args' = [b \in Backends |-> ArgsFor(kind'[b])]
    /\ made' = [b \in Backends |-> create_backend(args'[b].type, args'[b].path,
                                                   args'[b].uri, args'[b].database)]
    /\ confirm' = None
    /\ UNCHANGED <<dry_run, skip_cookies, orig>>

\* execute mode, cookies kept, into an empty store of the other kind
InitCycle ==
    /\ Init
    /\ kind["source"] # kind["target"]
    /\ store["target"] = EmptyStore(kind["target"])
    /\ ~dry_run
    /\ ~skip_cookies

NextCycle ==
    \/ Next
    \/ SecondRun

SpecCycle == InitCycle /\ [][NextCycle]_vars

\* ================================================================ properties
WriteOps == {"write_accounts", "write_groups"}
ReadOps == {"read_accounts", "read_groups"}
TargetMutators == {"ensure_schema", "write_accounts", "write_groups"}

Contains(list, rec) == \E j \in 1..Len(list) : list[j] = rec

\* C1: round-trip equivalence.  A list of accounts (groups) with distinct ids
\* written successfully and read back at once from the same backend comes back
\* record for record, field by field, cookies absent staying absent and
\* cookies empty staying empty.
C1_RoundTrip ==
    [][ /\ (/\ ret.op = "write_accounts" /\ ret.res = "ok"
            /\ ret'.op = "read_accounts" /\ ret'.res = "ok")
           => \A i \in 1..Len(ret.accounts) : Contains(ret'.accounts, ret.accounts[i])
        /\ (/\ ret.op = "write_groups" /\ ret.res = "ok"
            /\ ret'.op = "read_groups" /\ ret'.res = "ok")
           => \A i \in 1..Len(ret.groups) : Contains(ret'.groups, ret.groups[i])
      ]_vars

\* C2: cross-backend equivalence.  After a migration into an empty store of the
\* other kind and a second one back into an empty store of the first kind, the
\* final store reads back exactly what the original store read as.
C2_CrossBackend ==
    (hop = 2 /\ pc = "exit" /\ outcome = "ok")
    => /\ ReadAccountsOf(kind["target"], store["target"]) = orig.accounts
       /\ ReadGroupsOf(kind["target"], store["target"]) = orig.groups

\* C3: idempotent upsert with full replace.  After a successful write the
\* backend holds one record per id, the record of every written id reads back
\* with exactly the fields written last, and writing the same list again
\* changes nothing.
C3_UpsertFullReplace ==
    [][ /\ (ret'.op = "write_accounts" /\ ret'.res = "ok")
           => LET rd == ReadAccountsOf(kind[ret'.b], txn'[ret'.b])
              IN  /\ DistinctIds(rd)
                  /\ \A i \in 1..Len(ret'.accounts) : Contains(rd, ret'.accounts[i])
                  /\ (ret = ret') => (store' = store /\ txn' = txn)
        /\ (ret'.op = "write_groups" /\ ret'.res = "ok")
           => LET rd == ReadGroupsOf(kind[ret'.b], txn'[ret'.b])
              IN  /\ DistinctIds(rd)
                  /\ \A i \in 1..Len(ret'.groups) : Contains(rd, ret'.groups[i])
                  /\ (ret = ret') => (store' = store /\ txn' = txn)
      ]_vars

\* C4: a dry run is a no-op on the target.  With dry_run set, migrate() makes
\* no ensure_schema / write_accounts / write_groups call on the target and the
\* target's content stays what it was when the run started.
C4_DryRunNoOp ==
    dry_run
    => /\ store["target"] = store0["target"]
       /\ txn["target"] = store0["target"]
       /\ \A i \in 1..Len(calls) :
             ~(calls[i].b = "target" /\ calls[i].op \in TargetMutators)

\* C4 witness: a dry run that read a non-empty source finished over a target
\* that already held records.
C4_Witness ==
    /\ dry_run /\ pc = "exit" /\ outcome = "ok"
    /\ Len(accounts) > 0 /\ Len(groups) > 0
    /\ DOMAIN store0["target"].accounts # {}

\* C5: cookie stripping.  After a completed execute-mode run with skip_cookies,
\* every account of the source is on the target without cookies (NULL column /
\* no cookies field, read back as absent) whatever the source or the earlier
\* target record held, and the groups on the target are the groups read.
C5_CookieStripping ==
    (pc = "exit" /\ outcome = "ok" /\ ~dry_run /\ skip_cookies)
    => /\ \A i \in 1..Len(orig.accounts) :
             LET id == orig.accounts[i].id
                 t == store["target"].accounts
             IN  /\ id \in DOMAIN t
                 /\ IF kind["target"] = "sqlite" THEN t[id].cookies = None
                    ELSE "cookies" \notin DOMAIN t[id]
                 /\ Contains(ReadAccountsOf(kind["target"], store["target"]),
                             [orig.accounts[i] EXCEPT !.cookies = None])
       /\ groups = orig.groups
       /\ \A i \in 1..Len(orig.groups) :
             LET g == orig.groups[i]
                 t == store["target"].groups
             IN  /\ g.id \in DOMAIN t
                 /\ t[g.id] = IF kind["target"] = "sqlite" THEN SqliteGroupRow(g)
                              ELSE MongoGroupDoc(g)

\* C5 witness: a completed stripping run whose source account a1 had a cookie,
\* over a target whose earlier a1 had a cookie too, with a group migrated.
C5_Witness ==
    /\ pc = "exit" /\ outcome = "ok" /\ ~dry_run /\ skip_cookies
    /\ \E i \in 1..Len(orig.accounts) :
          orig.accounts[i].id = "a1" /\ Truthy(orig.accounts[i].cookies)
    /\ "a1" \in DOMAIN store0["target"].accounts
    /\ Len(orig.groups) > 0

Before(c, i) == \E j \in 1..(i - 1) : calls[j] = c

\* C6: execute-mode step order.  Every ensure_schema / write call on the target
\* comes after both source reads returned (read_accounts before read_groups);
\* write_accounts comes after ensure_schema returned, write_groups after
\* write_accounts returned; each is called at most once.
C6_StepOrder ==
    ~dry_run
    => \A i \in 1..Len(calls) :
          LET c == calls[i]
          IN  /\ (c.b = "target" /\ c.op \in TargetMutators)
                 => \E k \in 1..(i - 1) :
                       /\ calls[k] = Call("source", "read_groups", "ok")
                       /\ Before(Call("source", "read_accounts", "ok"), k)
              /\ (c.b = "target" /\ c.op = "write_accounts")
                 => Before(Call("target", "ensure_schema", "ok"), i)
              /\ (c.b = "target" /\ c.op = "write_groups")
                 => Before(Call("target", "write_accounts", "ok"), i)
              /\ \A j \in 1..Len(calls) :
                    (calls[j].b = c.b /\ calls[j].op = c.op) => j = i

\* C6 witness: an execute-mode run wrote accounts and groups and finished.
C6_Witness ==
    /\ ~dry_run /\ pc = "exit" /\ outcome = "ok"
    /\ Len(accounts) > 0 /\ Len(groups) > 0

\* the store of kind k holds records 1..m of recs as written
KeptAccounts(k, table, recs, m) ==
    \A i \in 1..m :
        /\ recs[i].id \in DOMAIN table
        /\ table[recs[i].id] = IF k = "sqlite" THEN SqliteAccountRow(recs[i])
                               ELSE MongoAccountDoc(recs[i])

KeptGroups(k, table, recs, m) ==
    \A i \in 1..m :
        /\ recs[i].id \in DOMAIN table
        /\ table[recs[i].id] = IF k = "sqlite" THEN SqliteGroupRow(recs[i])
                               ELSE MongoGroupDoc(recs[i])

\* a call that raised is followed by nothing but the two close() calls, and
\* the run ends in error
AbortsOnFailure ==
    \A i \in 1..Len(calls) :
        calls[i].res # "ok"
        => /\ outcome = "error"
           /\ \A j \in (i + 1)..Len(calls) : calls[j].op = "close"

C8_PerRecordIndependence ==
    (ret.op \in WriteOps /\ ret.res # "NotConnected")
    => ret.attempted = Len(ret.accounts) + Len(ret.groups)

\* C9: guaranteed cleanup.  When main() has ended, close() was called on the
\* source and on the target and neither backend object holds a connection or
\* a client.
C9_Cleanup ==
    pc = "exit"
    => /\ \E i \in 1..Len(calls) : calls[i] = Call("source", "close", "ok")
       /\ \E i \in 1..Len(calls) : calls[i] = Call("target", "close", "ok")
       /\ \A b \in Backends : self[b].conn = None /\ self[b].client = None

\* C9 witness: the run ended after the connect of a document-store source failed
\* (its client was constructed, the target was never connected).
C9_Witness ==
    /\ pc = "exit" /\ outcome = "error"
    /\ failure.op = "connect" /\ failure.b = "source"
    /\ kind["source"] = "mongodb" /\ status["target"] = "new"

\* C10: not-connected guard.  A read or write on a backend that is not
\* successfully connected (never connected, connect failed, closed) raises the
\* not-connected error, returns nothing and changes no store; on a connected
\* backend it never raises the not-connected error.
C10_NotConnectedGuard ==
    [][ ret'.op \in ReadOps \cup WriteOps
        => IF status[ret'.b] = "connected"
           THEN ret'.res # "NotConnected"
           ELSE /\ ret'.res = "NotConnected"
                /\ ret'.op \in ReadOps => (ret'.accounts = <<>> /\ ret'.groups = <<>>)
                /\ store' = store /\ txn' = txn
      ]_vars

\* C11: close is idempotent and always safe.  On either kind of backend a
\* close() never raises, whether the backend never connected, its connect
\* failed, or it is closed already; after it the backend holds no connection,
\* client or database handle and is not connected; the committed content of
\* the store is untouched; a close() that follows a close() changes nothing.
C11_CloseIdempotent ==
    [][ ret'.op = "close"
        => /\ ret'.res = "ok"
           /\ self'[ret'.b] = NewBackend
           /\ status'[ret'.b] # "connected"
           /\ store' = store
           /\ (ret.op = "close" /\ ret.b = ret'.b)
              => (self' = self /\ status' = status /\ txn' = txn)
      ]_vars

\* C11 witness: a relational backend whose connect failed has been closed.
C11_Witness ==
    /\ ret.op = "close" /\ ret.b = Sut
    /\ kind[Sut] = "sqlite" /\ status[Sut] = "failed"
    /\ self[Sut] = NewBackend

\* the value of a command-line option is missing or empty
Missing(v) == v = None \/ v = Val(<<>>)

Misconfigured(a) ==
    \/ a.type = "sqlite" /\ Missing(a.path)
    \/ a.type = "mongodb" /\ (Missing(a.uri) \/ Missing(a.database))
    \/ a.type \notin {"sqlite", "mongodb"}

\* C12: eager configuration validation.  create_backend() raises the
\* configuration error exactly when the kind is sqlite and the path is missing
\* or empty, the kind is mongodb and the uri or the database name is missing
\* or empty, or the kind is neither; when it raises, no backend object exists
\* for that side and nothing was connected, read or written; no backend call
\* is made before both backends were created.
C12_EagerValidation ==
    /\ \A b \in Backends :
          /\ made[b] # "none" => (made[b] = "ValueError" <=> Misconfigured(args[b]))
          /\ made[b] \in {"none", "ValueError"}
             => (self[b] = NewBackend /\ status[b] = "new")
    /\ (\E b \in Backends : made[b] \in {"none", "ValueError"})
       => /\ calls = <<>> /\ ret = NoRet
          /\ store = store0 /\ txn = store0
          /\ \A b \in Backends : self[b] = NewBackend /\ status[b] = "new"

\* C12 witness: the source was created, the target names a document store with
\* a uri and an empty database name, and main() has ended on the error.
C12_Witness ==
    /\ made["source"] \in {"SqliteBackend", "MongoBackend"}
    /\ made["target"] = "ValueError" /\ pc = "config_error"
    /\ args["target"].type = "mongodb"
    /\ Truthy(args["target"].uri) /\ args["target"].database = Val(<<>>)
    /\ status["source"] = "new"

Affirmative == {Val("y"), Val("Y")}

\* C13: confirmation gate.  In execute mode no ensure_schema / write_accounts /
\* write_groups call is made on the target unless the prompt was answered y or
\* Y before; after any other answer no source read is made, the target keeps
\* the content it had, and when main() has ended both backends are closed.
C13_ConfirmationGate ==
    ~dry_run
    => /\ (\E i \in 1..Len(calls) : calls[i].b = "target" /\ calls[i].op \in TargetMutators)
          => confirm \in Affirmative
       /\ (confirm # None /\ confirm \notin Affirmative)
          => /\ outcome = "aborted"
             /\ \A i \in 1..Len(calls) : calls[i].op \in {"connect", "close"}
             /\ store["target"] = store0["target"]
             /\ txn["target"] = store0["target"]
             /\ pc = "exit"
                => /\ \A b \in Backends :
                         /\ self[b] = NewBackend
                         /\ \E i \in 1..Len(calls) : calls[i] = Call(b, "close", "ok")

\* C13 witness: the prompt was answered n over a non-empty source and a target
\* holding records, and main() has ended.
C13_Witness ==
    /\ ~dry_run /\ pc = "exit" /\ confirm = Val("n")
    /\ DOMAIN store0["source"].accounts # {}
    /\ DOMAIN store0["target"].accounts # {}

\* a cookie is a mapping, an account id is a string
IsMapping(tok) == tok \in {"sid=x"}
IsString(tok) == tok \in Range(AccountIds)

\* C14: cookie and account_ids normalization on read.  Whatever the store
\* holds, every account a read returns has cookies absent or a list of
\* mappings, and every group has account_ids a list of strings.
C14_ReadNormalization ==
    /\ (ret.op = "read_accounts" /\ ret.res = "ok")
       => \A i \in 1..Len(ret.accounts) :
             LET c == ret.accounts[i].cookies
             IN  \/ c = None
                 \/ IsList(c) /\ \A j \in 1..Len(c[1]) : IsMapping(c[1][j])
    /\ (ret.op = "read_groups" /\ ret.res = "ok")
       => \A i \in 1..Len(ret.groups) :
             LET a == ret.groups[i].account_ids
             IN  a # None /\ IsList(a) /\ \A j \in 1..Len(a[1]) : IsString(a[1][j])

\* the stored ranking of record id of a table of a store of kind k, None when
\* the column is NULL or the field is null or not there
StoredRanking(k, table, id) ==
    IF k = "sqlite" THEN table[id].ranking ELSE doc_get(table[id], "ranking", None)

\* C15: ranking default on read.  Every account and group a read returns has
\* a ranking that is not None, and it is 0 when the stored record has no
\* ranking (NULL column, null field, no field).
C15_RankingDefault ==
    /\ (ret.op = "read_accounts" /\ ret.res = "ok")
       => \A i \in 1..Len(ret.accounts) :
             LET r == ret.accounts[i]
             IN  /\ r.ranking # None
                 /\ StoredRanking(kind[ret.b], txn[ret.b].accounts, r.id) = None
                    => r.ranking = Val(0)
    /\ (ret.op = "read_groups" /\ ret.res = "ok")
       => \A i \in 1..Len(ret.groups) :
             LET r == ret.groups[i]
             IN  /\ r.ranking # None
                 /\ StoredRanking(kind[ret.b], txn[ret.b].groups, r.id) = None
                    => r.ranking = Val(0)

\* position of an id in the ascending order of ids
Pos(ids, x) == CHOOSE i \in 1..Len(ids) : ids[i] = x

\* list holds exactly the ids of table, each once, strictly ascending
AscendingOnce(ids, list, table) ==
    /\ {list[i].id : i \in 1..Len(list)} = DOMAIN table
    /\ Len(list) = Cardinality(DOMAIN table)
    /\ \A i \in 1..(Len(list) - 1) : Pos(ids, list[i].id) < Pos(ids, list[i + 1].id)

\* C16: read ordering.  A read returns every stored record exactly once, in
\* strictly ascending order of id.
C16_ReadOrdering ==
    /\ (ret.op = "read_accounts" /\ ret.res = "ok")
       => AscendingOnce(AccountIds, ret.accounts, txn[ret.b].accounts)
    /\ (ret.op = "read_groups" /\ ret.res = "ok")
       => AscendingOnce(GroupIds, ret.groups, txn[ret.b].groups)

\* C16 witness: a read returned both groups of a store holding two.
C16_Witness ==
    /\ ret.op = "read_groups" /\ ret.res = "ok" /\ Len(ret.groups) = 2
    /\ DOMAIN txn[ret.b].accounts = Range(AccountIds)

\* C17: the source is read-only.  In every mode the only calls made on the
\* source are connect, read_accounts, read_groups and close, and the content
\* of the source store, cookies included, stays what it was when the run
\* started, also when the in-memory accounts were stripped.
C17_SourceReadOnly ==
    /\ \A i \in 1..Len(calls) :
          calls[i].b = "source"
          => calls[i].op \in {"connect", "read_accounts", "read_groups", "close"}
    /\ store["source"] = store0["source"]
    /\ txn["source"] = store0["source"]

\* C17 witness: a completed execute-mode run stripped a cookie that the
\* source's account carries.
C17_Witness ==
    /\ pc = "exit" /\ outcome = "ok" /\ ~dry_run /\ skip_cookies
    /\ \E i \in 1..Len(accounts) :
          /\ accounts[i].cookies = None
          /\ Truthy(ReadAccountsOf(kind["source"], store["source"])[i].cookies)

\* C18: migration never deletes.  After a completed execute-mode run the ids
\* on the target are its earlier ids and the source's ids; a target record
\* whose id is not in the source is as it was; a target record whose id is in
\* the source reads back as the source record (with cookies absent when
\* skip_cookies is set).
C18_NeverDeletes ==
    (pc = "exit" /\ outcome = "ok" /\ ~dry_run)
    => LET src == store0["source"]
           old == store0["target"]
           new == store["target"]
           accs == IF skip_cookies THEN StripCookies(orig.accounts) ELSE orig.accounts
       IN  /\ DOMAIN new.accounts = DOMAIN old.accounts \cup DOMAIN src.accounts
           /\ DOMAIN new.groups = DOMAIN old.groups \cup DOMAIN src.groups
           /\ \A id \in DOMAIN old.accounts \ DOMAIN src.accounts :
                 new.accounts[id] = old.accounts[id]
           /\ \A id \in DOMAIN old.groups \ DOMAIN src.groups :
                 new.groups[id] = old.groups[id]
           /\ \A i \in 1..Len(accs) :
                 Contains(ReadAccountsOf(kind["target"], new), accs[i])
           /\ \A i \in 1..Len(orig.groups) :
                 Contains(ReadGroupsOf(kind["target"], new), orig.groups[i])

\* the state of the run state machine that a state of main() / migrate() is in
Phase(p, o) ==
    IF o = "error" THEN "Failed"
    ELSE IF o = "aborted" THEN "Aborted"
    ELSE IF o = "ok" THEN "Done"
    ELSE IF p = "connect_source" THEN "Idle"
    ELSE IF p = "connect_target" THEN "SourceConnected"
    ELSE IF p \in {"confirm", "read_accounts"} THEN "BothConnected"
    ELSE IF p \in {"read_groups", "strip", "report"} THEN "Read"
    ELSE "Write"

\* the moves of the state machine; Read to Done is the dry-run report
Moves(from, to, dry) ==
    \/ from = to
    \/ from = "Idle" /\ to = "SourceConnected"
    \/ from = "SourceConnected" /\ to = "BothConnected"
    \/ from = "BothConnected" /\ to = "Read"
    \/ from = "Read" /\ to = "Done" /\ dry
    \/ from = "Read" /\ to = "Write" /\ ~dry
    \/ from = "Write" /\ to = "Done" /\ ~dry
    \/ from \notin {"Done", "Failed", "Aborted"} /\ to = "Failed"

\* connect at most once per backend; the target's connect after the source's
\* succeeded; a source read after both connects succeeded
ConnectDiscipline(cs) ==
    \A i \in 1..Len(cs) :
        /\ cs[i].op = "connect"
           => \A j \in 1..Len(cs) : (cs[j].op = "connect" /\ cs[j].b = cs[i].b) => j = i
        /\ (cs[i].op = "connect" /\ cs[i].b = "target")
           => \E j \in 1..(i - 1) : cs[j] = Call("source", "connect", "ok")
        /\ (cs[i].b = "source" /\ cs[i].op \in ReadOps)
           => /\ \E j \in 1..(i - 1) : cs[j] = Call("source", "connect", "ok")
              /\ \E j \in 1..(i - 1) : cs[j] = Call("target", "connect", "ok")

\* C19 as claimed: run state machine.  Every step of a run is a move of Idle,
\* SourceConnected, BothConnected, Read, then the dry-run report or Write, then
\* Done, or a move to Failed; connect is called at most once per backend, the
\* target's only after the source's succeeded, the source is read only after
\* both succeeded; Write only in execute mode, the dry-run report only in a
\* dry run.
C19_RunStateMachine ==
    [][ /\ Moves(Phase(pc, outcome), Phase(pc', outcome'), dry_run)
        /\ ConnectDiscipline(calls')
      ]_vars

\* C19 as amended: as claimed, with one more way to end: from BothConnected,
\* in execute mode, a prompt that is not answered y or Y ends the run
\* (Aborted) before anything is read.
C19_RunStateMachineWithAbort ==
    [][ /\ \/ Moves(Phase(pc, outcome), Phase(pc', outcome'), dry_run)
           \/ /\ Phase(pc, outcome) = "BothConnected" /\ Phase(pc', outcome') = "Aborted"
              /\ ~dry_run /\ confirm' \notin Affirmative
        /\ ConnectDiscipline(calls')
      ]_vars

\* C19 witness: a run whose prompt was declined after both connects succeeded
\* has ended without a read.
C19_Witness ==
    /\ pc = "exit" /\ Phase(pc, outcome) = "Aborted"
    /\ Len(calls) = 4
    /\ calls[1] = Call("source", "connect", "ok")
    /\ calls[2] = Call("target", "connect", "ok")

\* C20: a relational batch is all-or-nothing within a run.  With a relational
\* target, once write_accounts (write_groups) has failed the committed accounts
\* (groups) table is the one the run started with, whatever records of the
\* batch were executed before the failing one; the tables created by
\* ensure_schema are there, the accounts written before a failing write_groups
\* are there, and when main() has ended nothing uncommitted is left.
C20_RelationalAllOrNothing ==
    (kind["target"] = "sqlite" /\ failure.b = "target" /\ failure.op \in WriteOps)
    => /\ store["target"].tables
       /\ failure.op = "write_accounts"
          => /\ store["target"].accounts = store0["target"].accounts
             /\ store["target"].groups = store0["target"].groups
       /\ failure.op = "write_groups"
          => /\ store["target"].groups = store0["target"].groups
             /\ KeptAccounts("sqlite", store["target"].accounts, accounts, Len(accounts))
       /\ pc = "exit" => (txn["target"] = store["target"] /\ self["target"].conn = None)

\* C20 witness: write_accounts failed at its second record on a relational
\* target whose tables the run had created, and main() has ended.
C20_Witness ==
    /\ pc = "exit" /\ kind["target"] = "sqlite"
    /\ failure.op = "write_accounts" /\ failure.attempted = 2
    /\ ~store0["target"].tables /\ store["target"].tables

====
